---- MODULE Spec2Model ----
(***************************************************************************)
(* A model of mkswap's SwapWriter (src/src/lib.rs): the builder            *)
(* (new, label, uuid, page_size) and the steps of SwapWriter::write on a   *)
(* seekable, writable handle.                                              *)
(*                                                                         *)
(* Numbers of the u64 / u32 / usize types are kept as little-endian        *)
(* tuples of bytes (least significant byte first), so that areas of 2^32   *)
(* pages and more are within reach of the model and the arithmetic keeps   *)
(* its width.  Values that the program only ever uses as small offsets     *)
(* (1024, page_size - 10, ...) are converted with ToNat / FromNat.         *)
(*                                                                         *)
(* The handle is std::io::Cursor<Vec<u8>>, the sink of the crate's         *)
(* documentation example and of its test: seeking never fails when left    *)
(* alone, a write beyond the end of the vector grows it, the gap being     *)
(* filled with zero bytes.  The std::io::Write and Seek traits let every   *)
(* operation fail; a sink that is not `reliable` may fail any of them.     *)
(* The vector's content is kept sparsely: mem maps the offsets written so  *)
(* far to their bytes, every other offset below orig.len still holds the   *)
(* byte it held before the call (fill).                                    *)
(***************************************************************************)
EXTENDS Integers, Sequences, FiniteSets, TLC

\* ------------------------------------------------------------ constants
MAXIMUM_LABEL_BYTES == 16
MINIMUM_PAGES == 10

\* ------------------------------------------------------------ bounds
\* Labels of every length in LabelLens are tried; the longest has MaxLabelLen bytes.
MaxLabelLen == 17
\* The identifiers a caller passes or Uuid::new_v4 draws.
NumUuids == 2

\* ------------------------------------------------------------ numbers
Byte == 0..255

Zero64 == <<0, 0, 0, 0, 0, 0, 0, 0>>

\* u32::MAX as a 4-byte number
U32Max == <<255, 255, 255, 255>>

\* The w-byte number holding n (0 <= n < 2^31).
FromNat(n, w) ==
  [i \in 1..w |-> IF i = 1 THEN n % 256
                  ELSE IF i = 2 THEN (n \div 256) % 256
                  ELSE IF i = 3 THEN (n \div 65536) % 256
                  ELSE IF i = 4 THEN (n \div 16777216) % 256
                  ELSE 0]

\* A number below 2^31, which ToNat can turn into an integer of the model.
IsSmall(x) == /\ \A i \in 5..Len(x) : x[i] = 0
              /\ x[4] < 128

ToNat(x) == x[1] + 256 * x[2] + 65536 * x[3] + 16777216 * x[4]

\* x < n, for a number x of any size and a small integer n
LessThanNat(x, n) == IsSmall(x) /\ ToNat(x) < n

\* i < x, for a small integer i and a number x of any size
NatLessThan(i, x) == ~IsSmall(x) \/ i < ToNat(x)

\* Long division of the number x by the integer d (0 < d < 2^22), most
\* significant byte first; the quotient has as many bytes as x.
RECURSIVE DivFrom(_, _, _, _, _)
DivFrom(x, d, i, rem, acc) ==
  IF i = 0 THEN acc
  ELSE LET cur == rem * 256 + x[i]
       IN  DivFrom(x, d, i - 1, cur % d, [acc EXCEPT ![i] = cur \div d])

DivU64(x, d) == DivFrom(x, d, Len(x), 0, x)

\* Mutant: the narrowing wraps, as `as u32` would
TryIntoU32_Wrapping(q) == SubSeq(q, 1, 4)

\* u64 -> u32 by try_into().unwrap_or(u32::MAX): the value if it fits, else u32::MAX
TryIntoU32OrMax(q) ==
  IF \A i \in 5..8 : q[i] = 0 THEN SubSeq(q, 1, 4) ELSE U32Max

\* x - 1 in the width of x, borrowing through the zero bytes (write only
\* subtracts from a page count of MINIMUM_PAGES or more; 0 - 1 wraps)
Sub1(x) ==
  IF \A j \in 1..Len(x) : x[j] = 0 THEN [i \in 1..Len(x) |-> 255]
  ELSE LET k == CHOOSE j \in 1..Len(x) : x[j] # 0 /\ \A m \in 1..(j - 1) : x[m] = 0
       IN  [i \in 1..Len(x) |-> IF i < k THEN 255 ELSE IF i = k THEN x[i] - 1 ELSE x[i]]

\* page_size - 10 in u64 arithmetic without overflow checks, for page_size < 10:
\* 2^64 - (10 - p)
WrappedSub10(p) == [i \in 1..8 |-> IF i = 1 THEN 256 - (10 - p) ELSE 255]

Reverse(s) == [i \in 1..Len(s) |-> s[Len(s) + 1 - i]]

\* u32::to_ne_bytes on a host of the given byte order
ToNeBytes(x, order) == IF order = "little" THEN x ELSE Reverse(x)

\* ------------------------------------------------------------ inputs
None == <<>>
Some(x) == <<x>>

\* "🔀" as UTF-8, the label of the crate's example and test
EmojiLabel == <<240, 159, 148, 128>>

\* An ASCII label of n bytes: "ABC..."
AsciiLabel(n) == [i \in 1..n |-> 64 + i]

LabelLens == {0, MAXIMUM_LABEL_BYTES} \cup ((MAXIMUM_LABEL_BYTES + 1)..MaxLabelLen)

Labels == {EmojiLabel} \cup {AsciiLabel(n) : n \in LabelLens}

\* 87705c6e-9673-4283-b33a-b87dbf6ec490, the identifier of the crate's test
TestUuid == <<135, 112, 92, 110, 150, 115, 66, 131, 179, 58, 184, 125, 191, 110, 196, 144>>

UuidOf(k) == IF k = 1 THEN TestUuid ELSE [i \in 1..16 |-> 16 * k + i]

Uuids == {UuidOf(k) : k \in 1..NumUuids}

\* The page sizes a caller passes to page_size(): 0, one below 10, 10, one
\* that puts the magic below offset 1024, two that put it onto the header
\* fields (1024.. and 1052..), the first that puts it behind the label field,
\* and the usual 4096.  (DivU64 and Times take page sizes below 2^22.)
PageSizes == {0, 5, 10, 512, 1034, 1062, 1078, 4096}

\* What page_size::get() answers on the host
HostPageSizes == {4096}

\* The lengths of the destination before the call, as u64 values (the large
\* ones are those of a file or a device; for the operations write performs,
\* such a handle behaves as the vector does):
\*   0, 50, 100, 12000, 40960 (the test's 40 KiB),
\*   4096 * (2^32 - 1), 4096 * (2^32 + 3), 4096 * (2^32 + 20)
DestLens ==
  {FromNat(0, 8), FromNat(50, 8), FromNat(100, 8), FromNat(12000, 8), FromNat(40960, 8),
   <<0, 240, 255, 255, 255, 15, 0, 0>>,
   <<0, 48, 0, 0, 0, 16, 0, 0>>,
   <<0, 64, 1, 0, 0, 16, 0, 0>>}

\* The positions the handle may have before the call
StartPositions == {0, 7}

\* The bytes a destination may be filled with before the call
Fills == {0, 170}

Magic == <<83, 87, 65, 80, 83, 80, 65, 67, 69, 50>>

\* ------------------------------------------------------------ state
VARIABLES
  uuid,        \* SwapWriter.uuid: Option<Uuid>
  label,       \* SwapWriter.label: Option<String>, the string as its UTF-8 bytes
  page_size,   \* SwapWriter.page_size: Option<u64>
  size,        \* SwapWriter.size: Option<u64>; no method sets it
  last,        \* the last builder call and what it returned
  pc,          \* "build" while the builder is alive, "dropped" once label() has
               \* consumed it with an error, then the position inside write
  loc,         \* the locals of write: label, uuid, page_size, total_size_bytes, pages
  pos,         \* Cursor position (u64)
  len,         \* Vec length (usize, as 8 bytes)
  mem,         \* the bytes written so far, by offset
  trace,       \* the operations performed on the handle, in order, with their outcome
  result,      \* what write returned
  host,        \* the host: page size and byte order
  orig         \* the destination before the call: its length, position, fill byte,
               \* and whether its operations never fail

vars == <<uuid, label, page_size, size, last, pc, loc, pos, len, mem, trace, result, host, orig>>

NoResult == [kind |-> "none", err |-> "", val |-> <<>>]
OkResult(v) == [kind |-> "Ok", err |-> "", val |-> v]
ErrResult(e, v) == [kind |-> "Err", err |-> e, val |-> v]
PanicResult(why) == [kind |-> "panic", err |-> why, val |-> <<>>]

NoLocals == [label |-> <<>>, uuid |-> <<>>, page_size |-> 0,
             total_size_bytes |-> Zero64, pages |-> <<>>]

EmptyMem == [i \in {} |-> 0]

\* SwapWriter::new() and a destination of the caller
Init ==
  /\ uuid = None
  /\ label = None
  /\ page_size = None
  /\ size = None
  /\ last = [op |-> "new", arg |-> <<>>, ret |-> "Ok"]
  /\ pc = "build"
  /\ loc = NoLocals
  /\ \E n \in DestLens, p \in StartPositions, f \in Fills, r \in BOOLEAN :
       /\ orig = [len |-> n, pos |-> FromNat(p, 8), fill |-> f, reliable |-> r]
       /\ len = n
       /\ pos = FromNat(p, 8)
  /\ mem = EmptyMem
  /\ trace = <<>>
  /\ result = NoResult
  /\ \E h \in HostPageSizes, o \in {"little", "big"} :
       host = [page_size |-> h, order |-> o]

\* ------------------------------------------------------------ the sink
\* The outcomes of one operation of the handle: Ok(..) or Err(..)
SinkOutcomes == IF orig.reliable THEN {"ok"} ELSE {"ok", "err"}

\* The byte at offset i of the destination
ByteAt(i) ==
  IF i \in DOMAIN mem THEN mem[i]
  ELSE IF NatLessThan(i, orig.len) THEN orig.fill
  ELSE 0

\* Cursor<Vec<u8>>::write(buf) at a position p below 2^31: the bytes land at
\* p .. p + Len(buf) - 1, the vector grows to hold them
MemAfterWrite(p, buf) ==
  [i \in DOMAIN mem \cup (p..(p + Len(buf) - 1)) |->
     IF i >= p /\ i < p + Len(buf) THEN buf[i - p + 1] ELSE mem[i]]

LenAfterWrite(p, buf) ==
  IF NatLessThan(p + Len(buf), len) THEN len ELSE FromNat(p + Len(buf), 8)

Logged(op, outcome) == Append(trace, [op |-> op, outcome |-> outcome])

\* ------------------------------------------------------------ the builder
\* Mutant: a label of exactly MAXIMUM_LABEL_BYTES is refused too
LabelFits_Strict(l) == Len(l) < MAXIMUM_LABEL_BYTES

\* label.len() > MAXIMUM_LABEL_BYTES is refused
LabelFits(l) == Len(l) <= MAXIMUM_LABEL_BYTES

\* SwapWriter::label: a label that is too long returns Err and the builder, taken
\* by value, is gone; otherwise the label is stored
SetLabel(l) ==
  /\ pc = "build"
  /\ IF LabelFits(l)
       THEN /\ label' = Some(l)
            /\ last' = [op |-> "label", arg |-> l, ret |-> "Ok"]
            /\ pc' = pc
       ELSE /\ label' = label
            /\ last' = [op |-> "label", arg |-> l, ret |-> "LabelTooLong"]
            /\ pc' = "dropped"
  /\ UNCHANGED <<uuid, page_size, size, loc, pos, len, mem, trace, result, host, orig>>

\* SwapWriter::uuid
SetUuid(u) ==
  /\ pc = "build"
  /\ uuid' = Some(u)
  /\ last' = [op |-> "uuid", arg |-> u, ret |-> "Ok"]
  /\ UNCHANGED <<label, page_size, size, pc, loc, pos, len, mem, trace, result, host, orig>>

\* SwapWriter::page_size
SetPageSize(p) ==
  /\ pc = "build"
  /\ page_size' = Some(p)
  /\ last' = [op |-> "page_size", arg |-> <<p>>, ret |-> "Ok"]
  /\ UNCHANGED <<uuid, label, size, pc, loc, pos, len, mem, trace, result, host, orig>>

\* ------------------------------------------------------------ write
\* Mutant: the outcome of the operation is dropped, write goes on
Propagate_Ignoring(ok, e, next) == pc' = next /\ result' = result

\* `.map_err(E)?` on the outcome of an operation of the handle: on failure write
\* returns Err(E) at once, on success it goes on with the next step
Propagate(ok, e, next) ==
  IF ok = "ok" THEN pc' = next /\ result' = result
  ELSE pc' = "done" /\ result' = ErrResult(e, <<>>)

\* Mutant: the page count is not checked
TooFew_Never(pages) == FALSE

\* Mutant: exactly MINIMUM_PAGES pages are refused too
TooFew_Inclusive(pages) == LessThanNat(pages, MINIMUM_PAGES + 1)

\* pages < MINIMUM_PAGES
TooFew(pages) == LessThanNat(pages, MINIMUM_PAGES)

\* The entry of write: the label, the identifier and the page size are
\* resolved (usize -> u64 of the host's page size cannot fail on a target of
\* at most 64 bits, so GiganticPageSize never comes out).
WriteResolve ==
  /\ pc = "build"
  /\ LET l == IF label = None THEN <<>> ELSE label[1]
     IN  IF ~LabelFits(l)
           THEN /\ result' = ErrResult("LabelTooLong", <<>>)
                /\ pc' = "done"
                /\ loc' = loc
           ELSE /\ \E u \in (IF uuid = None THEN Uuids ELSE {uuid[1]}) :
                     loc' = [loc EXCEPT !.label = l,
                                        !.uuid = u,
                                        !.page_size = IF page_size = None THEN host.page_size
                                                      ELSE page_size[1]]
                /\ result' = result
                /\ pc' = IF size = None THEN "detect_seek_end" ELSE "pages"
  /\ last' = [op |-> "write", arg |-> <<>>, ret |-> ""]
  /\ UNCHANGED <<uuid, label, page_size, size, pos, len, mem, trace, host, orig>>

\* detect_size_bytes: handle.seek(SeekFrom::End(0))?
DetectSeekEnd ==
  /\ pc = "detect_seek_end"
  /\ \E ok \in SinkOutcomes :
       /\ trace' = Logged("seek_end", ok)
       /\ pos' = IF ok = "ok" THEN len ELSE pos
       /\ Propagate(ok, "SizeDetection", "detect_position")
  /\ UNCHANGED <<uuid, label, page_size, size, last, loc, len, mem, host, orig>>

\* detect_size_bytes: let size = handle.stream_position()?
DetectPosition ==
  /\ pc = "detect_position"
  /\ \E ok \in SinkOutcomes :
       /\ trace' = Logged("stream_position", ok)
       /\ loc' = IF ok = "ok" THEN [loc EXCEPT !.total_size_bytes = pos] ELSE loc
       /\ Propagate(ok, "SizeDetection", "detect_seek_start")
  /\ UNCHANGED <<uuid, label, page_size, size, last, pos, len, mem, host, orig>>

\* detect_size_bytes: handle.seek(SeekFrom::Start(0))?
DetectSeekStart ==
  /\ pc = "detect_seek_start"
  /\ \E ok \in SinkOutcomes :
       /\ trace' = Logged("seek_start", ok)
       /\ pos' = IF ok = "ok" THEN Zero64 ELSE pos
       /\ Propagate(ok, "SizeDetection", "pages")
  /\ UNCHANGED <<uuid, label, page_size, size, last, loc, len, mem, host, orig>>

\* pages = (total_size_bytes / page_size).try_into().unwrap_or(u32::MAX), and
\* the check against MINIMUM_PAGES; the division panics on a page size of 0
ComputePages ==
  /\ pc = "pages"
  /\ IF loc.page_size = 0
       THEN /\ result' = PanicResult("attempt to divide by zero")
            /\ pc' = "done"
            /\ loc' = loc
       ELSE LET pages == TryIntoU32OrMax(DivU64(loc.total_size_bytes, loc.page_size))
            IN  /\ loc' = [loc EXCEPT !.pages = pages]
                /\ IF TooFew(pages)
                     THEN /\ result' = ErrResult("TooFewPages", pages)
                          /\ pc' = "done"
                     ELSE /\ result' = result
                          /\ pc' = "seek_1024"
  /\ UNCHANGED <<uuid, label, page_size, size, last, pos, len, mem, trace, host, orig>>

\* handle.seek(SeekFrom::Start(n)).map_err(Error::WriteHeader)?
SeekStep(at, op, n, next) ==
  /\ pc = at
  /\ \E ok \in SinkOutcomes :
       /\ trace' = Logged(op, ok)
       /\ pos' = IF ok = "ok" THEN n ELSE pos
       /\ Propagate(ok, "WriteHeader", next)
  /\ UNCHANGED <<uuid, label, page_size, size, last, loc, len, mem, host, orig>>

\* handle.write(buf).map_err(Error::WriteHeader)? at the current position
WriteStep(at, op, buf, next) ==
  /\ pc = at
  /\ IsSmall(pos)
  /\ \E ok \in SinkOutcomes :
       /\ trace' = Logged(op, ok)
       /\ IF ok = "ok"
            THEN /\ mem' = MemAfterWrite(ToNat(pos), buf)
                 /\ len' = LenAfterWrite(ToNat(pos), buf)
                 /\ pos' = FromNat(ToNat(pos) + Len(buf), 8)
            ELSE UNCHANGED <<mem, len, pos>>
       /\ Propagate(ok, "WriteHeader", next)
  /\ UNCHANGED <<uuid, label, page_size, size, last, loc, host, orig>>

Seek1024 == SeekStep("seek_1024", "seek_1024", FromNat(1024, 8), "version")

WriteVersion == WriteStep("version", "write_version", <<1, 0, 0, 0>>, "last_page")

WriteLastPage ==
  WriteStep("last_page", "write_last_page", ToNeBytes(Sub1(loc.pages), host.order), "bad_pages")

WriteBadPages == WriteStep("bad_pages", "write_bad_pages", <<0, 0, 0, 0>>, "uuid")

WriteUuid == WriteStep("uuid", "write_uuid", loc.uuid, "label")

WriteLabel == WriteStep("label", "write_label", loc.label, "seek_magic")

\* handle.seek(SeekFrom::Start(page_size - 10)): below a page size of 10 the
\* subtraction overflows, which panics in a build with overflow checks and
\* wraps around in a build without
SeekMagic ==
  \/ /\ loc.page_size >= 10
     /\ SeekStep("seek_magic", "seek_magic", FromNat(loc.page_size - 10, 8), "magic")
  \/ /\ loc.page_size < 10
     /\ pc = "seek_magic"
     /\ result' = PanicResult("attempt to subtract with overflow")
     /\ pc' = "done"
     /\ UNCHANGED <<uuid, label, page_size, size, last, loc, pos, len, mem, trace, host, orig>>
  \/ /\ loc.page_size < 10
     /\ SeekStep("seek_magic", "seek_magic", WrappedSub10(loc.page_size), "magic")

\* handle.write(b"SWAPSPACE2"); at a wrapped position the vector cannot grow
\* that far: the write panics (capacity overflow) where usize holds the
\* position, and fails where it does not
WriteMagic ==
  \/ WriteStep("magic", "write_magic", Magic, "seek_0")
  \/ /\ pc = "magic"
     /\ ~IsSmall(pos)
     /\ \E o \in {"panic", "err"} :
          /\ result' = IF o = "panic" THEN PanicResult("capacity overflow")
                        ELSE ErrResult("WriteHeader", <<>>)
          /\ trace' = Logged("write_magic", o)
     /\ pc' = "done"
     /\ UNCHANGED <<uuid, label, page_size, size, last, loc, pos, len, mem, host, orig>>

SeekZero == SeekStep("seek_0", "seek_0", Zero64, "return")

\* Ok(total_size_bytes)
Return ==
  /\ pc = "return"
  /\ result' = OkResult(loc.total_size_bytes)
  /\ pc' = "done"
  /\ UNCHANGED <<uuid, label, page_size, size, last, loc, pos, len, mem, trace, host, orig>>

Next ==
  \/ \E l \in Labels : SetLabel(l)
  \/ \E u \in Uuids : SetUuid(u)
  \/ \E p \in PageSizes : SetPageSize(p)
  \/ WriteResolve
  \/ DetectSeekEnd
  \/ DetectPosition
  \/ DetectSeekStart
  \/ ComputePages
  \/ Seek1024
  \/ WriteVersion
  \/ WriteLastPage
  \/ WriteBadPages
  \/ WriteUuid
  \/ WriteLabel
  \/ SeekMagic
  \/ WriteMagic
  \/ SeekZero
  \/ Return

Spec == Init /\ [][Next]_vars

\* ------------------------------------------------------------ reading the state
\* The n bytes of the destination from offset at on
Field(at, n) == [i \in 1..n |-> ByteAt(at + i - 1)]

\* a <= b for two numbers of the same width
Leq(a, b) ==
  \/ a = b
  \/ \E i \in 1..Len(a) : a[i] < b[i] /\ \A j \in (i + 1)..Len(a) : a[j] = b[j]

\* The number x times the integer d (d < 2^22), in the width of x
RECURSIVE MulFrom(_, _, _, _, _)
MulFrom(x, d, i, carry, acc) ==
  IF i > Len(x) THEN acc
  ELSE LET cur == x[i] * d + carry
       IN  MulFrom(x, d, i + 1, cur \div 256, [acc EXCEPT ![i] = cur % 256])

Times(x, d) == MulFrom(x, d, 1, 0, x)

\* x + 1 in the width of x (the maximum wraps to 0)
Add1(x) ==
  IF \A j \in 1..Len(x) : x[j] = 255 THEN [i \in 1..Len(x) |-> 0]
  ELSE LET k == CHOOSE j \in 1..Len(x) : x[j] # 255 /\ \A m \in 1..(j - 1) : x[m] = 255
       IN  [i \in 1..Len(x) |-> IF i < k THEN 0 ELSE IF i = k THEN x[i] + 1 ELSE x[i]]

\* A 4-byte number in 8 bytes
Widen(x) == x \o <<0, 0, 0, 0>>

\* The operations write performs on the handle, in the order of the code
StepOrder ==
  <<"seek_end", "stream_position", "seek_start", "seek_1024", "write_version",
    "write_last_page", "write_bad_pages", "write_uuid", "write_label", "seek_magic",
    "write_magic", "seek_0">>

IsWrite(op) ==
  op \in {"write_version", "write_last_page", "write_bad_pages", "write_uuid",
          "write_label", "write_magic"}

\* write has got the size of the destination (detect_size_bytes returned Ok)
SizeResolved == Len(trace) >= 3 /\ \A i \in 1..3 : trace[i].outcome = "ok"

\* floor(total / page_size) >= n, for small n and a page size above 0
AtLeastPages(n) == NatLessThan(n * loc.page_size - 1, loc.total_size_bytes)

Untouched == mem = EmptyMem /\ len = orig.len

\* write has returned Ok or Err
Returned == pc = "done" /\ result.kind \in {"Ok", "Err"}

\* ------------------------------------------------------------ claims

\* C1: for every configuration with total_size / page_size >= 10 and a sink
\* whose operations do not fail, write returns Ok(total_size), the total size
\* being the length of the destination, and leaves the handle at offset 0,
\* whatever its position before the call.
C1_WriteSucceeds ==
  (pc = "done" /\ orig.reliable /\ SizeResolved /\ loc.page_size > 0
     /\ AtLeastPages(MINIMUM_PAGES))
    => (result = OkResult(orig.len) /\ pos = Zero64)

\* C2: after a write that returned Ok, the destination holds every header field
\* at its offset at once: version 1 at 1024 (as the bytes 01 00 00 00 or in
\* the host's order), pages - 1 at 1028 in the host's order, 0 at 1032, the
\* identifier at 1036, the label at 1052, "SWAPSPACE2" at page_size - 10.
C2_HeaderComplete ==
  result.kind = "Ok" =>
    /\ Field(1024, 4) \in {<<1, 0, 0, 0>>, ToNeBytes(<<1, 0, 0, 0>>, host.order)}
    /\ Field(1028, 4) = ToNeBytes(Sub1(loc.pages), host.order)
    /\ Field(1032, 4) = <<0, 0, 0, 0>>
    /\ Field(1036, 16) = loc.uuid
    /\ (uuid # None => Field(1036, 16) = uuid[1])
    /\ (label # None => Field(1052, Len(label[1])) = label[1])
    /\ Field(loc.page_size - 10, 10) = Magic

\* C3: whatever the page size and the outcome, every byte of the destination at
\* an offset below 1024 keeps the value it had before the call.
\* (Only the offsets in mem can differ from the bytes before the call.)
C3_ReservedUntouched ==
  Returned => \A i \in DOMAIN mem : (i < 1024 /\ NatLessThan(i, orig.len)) => ByteAt(i) = orig.fill

\* C4: write never panics, whatever page size, label and destination length the
\* caller supplies.
C4_NeverPanics == result.kind # "panic"

\* C5: when total_size / page_size is below MINIMUM_PAGES, write aborts with an
\* error before any mutation: no write was issued on the handle and the
\* destination's bytes and length are what they were.
C5_NoMutationBelowMinimum ==
  (SizeResolved /\ loc.page_size > 0 /\ ~AtLeastPages(MINIMUM_PAGES))
    => /\ Untouched
       /\ \A i \in 1..Len(trace) : ~IsWrite(trace[i].op)
       /\ pc \in {"pages", "done"}
       /\ (pc = "done" => result.kind = "Err")

\* 50 bytes in pages of 10: 5 pages
C5_Witness ==
  /\ pc = "done"
  /\ result = ErrResult("TooFewPages", FromNat(5, 4))
  /\ orig.len = FromNat(50, 8)
  /\ loc.page_size = 10
  /\ orig.fill = 170
  /\ Len(trace) = 3

\* C6: when total_size / page_size is below 10, write fails with TooFewPages
\* carrying floor(total_size / page_size); at 10 pages or more it does not fail
\* with TooFewPages.
C6_TooFewPages ==
  (pc = "done" /\ SizeResolved /\ loc.page_size > 0) =>
    IF AtLeastPages(MINIMUM_PAGES)
      THEN result.err # "TooFewPages"
      ELSE /\ result.kind = "Err"
           /\ result.err = "TooFewPages"
           /\ Len(result.val) = 4
           /\ LET c == ToNat(result.val)
                  t == ToNat(loc.total_size_bytes)
              IN  /\ IsSmall(result.val)
                  /\ c * loc.page_size <= t
                  /\ t < (c + 1) * loc.page_size

\* 12000 bytes in pages of 4096: TooFewPages(2)
C6_Witness ==
  /\ pc = "done"
  /\ result = ErrResult("TooFewPages", FromNat(2, 4))
  /\ loc.total_size_bytes = FromNat(12000, 8)
  /\ loc.page_size = 4096

\* exactly 10 pages pass, as in the crate's test (40960 / 4096)
C6_ExactlyTen ==
  /\ pc = "done"
  /\ result.kind = "Ok"
  /\ loc.total_size_bytes = FromNat(40960, 8)
  /\ loc.page_size = 4096
  /\ loc.pages = FromNat(10, 4)

C7_LabelBounded ==
  /\ label # None => Len(label[1]) <= 16
  /\ result.err # "LabelTooLong"

C7_LabelCall ==
  (last' # last /\ last'.op = "label") =>
    IF Len(last'.arg) <= 16
      THEN /\ last'.ret = "Ok"
           /\ label' = Some(last'.arg)
           /\ UNCHANGED <<uuid, page_size, size>>
      ELSE /\ last'.ret = "LabelTooLong"
           /\ UNCHANGED <<uuid, label, page_size, size>>

C8_PagesSaturate ==
  LET p == Widen(loc.pages)
      t == loc.total_size_bytes
  IN  /\ Leq(Times(p, loc.page_size), t)
      /\ \/ loc.pages = U32Max
         \/ ~Leq(Times(Add1(p), loc.page_size), t)

C9_Order ==
  /\ Len(trace) <= Len(StepOrder)
  /\ \A i \in 1..Len(trace) : trace[i].op = StepOrder[i]
  /\ \A i \in 1..(Len(trace) - 1) : trace[i].outcome = "ok"
  /\ loc.pages # <<>> => SizeResolved
  /\ Len(trace) >= 4 => (loc.pages # <<>> /\ ~LessThanNat(loc.pages, MINIMUM_PAGES))
  /\ \A k \in 1..Len(trace) :
       trace[k].outcome = "err" =>
         /\ pc = "done"
         /\ result.kind = "Err"
         /\ result.err = IF k <= 3 THEN "SizeDetection" ELSE "WriteHeader"
         /\ k <= 3 => Untouched
  /\ result.kind = "Ok" =>
       /\ Len(trace) = Len(StepOrder)
       /\ \A i \in 1..Len(trace) : trace[i].outcome = "ok"
  \* the fields written before a failure are in the destination
  /\ (Len(trace) \in 6..10 /\ trace[5].outcome = "ok") => Field(1024, 4) = <<1, 0, 0, 0>>
  /\ (Len(trace) \in 9..10 /\ trace[8].outcome = "ok") => Field(1036, 16) = loc.uuid

\* a failed operation leaves the destination as it was, nothing written is
\* taken back, and once write has returned the handle is not used again
C9_Steps ==
  /\ (trace' # trace /\ trace'[Len(trace')].outcome = "err")
       => UNCHANGED <<mem, len, pos>>
  /\ \A i \in DOMAIN mem : i \in DOMAIN mem'
  /\ pc = "done" => UNCHANGED <<trace, mem, len, pos, result>>

\* C9: write runs size detection, the page-count check, the seek to 1024, the
\* five header fields, the seek to page_size - 10, the magic and the seek to 0
\* in this order; the first failing step ends it: SizeDetection with nothing
\* written for the three steps of size detection, WriteHeader afterwards, no
\* later operation on the handle, the earlier fields left in the destination,
\* and never Ok.
C9_ShortCircuit == []C9_Order /\ [][C9_Steps]_vars

\* the write of the identifier failed: version, last_page and the bad-page count
\* are written, the identifier, the label and the magic are not
C9_Witness ==
  /\ pc = "done"
  /\ result.err = "WriteHeader"
  /\ Len(trace) = 8
  /\ trace[8].outcome = "err"
  /\ DOMAIN mem = 1024..1035
  /\ orig.fill = 170

\* C10: write changes only the bytes at 1024 .. 1052 + len(label) - 1 and at
\* page_size - 10 .. page_size - 1, and does not change the destination's
\* length; no padding follows a label shorter than 16 bytes.
C10_Frame ==
  Returned =>
    /\ \A i \in DOMAIN mem :
         (NatLessThan(i, orig.len) /\ ByteAt(i) # orig.fill) =>
           \/ i \in 1024..(1052 + Len(loc.label) - 1)
           \/ i \in (loc.page_size - 10)..(loc.page_size - 1)
    /\ len = orig.len

\* The part of C10 about the bytes alone
C10_BytesOnly ==
  \A i \in DOMAIN mem :
       \/ i \in 1024..(1052 + Len(loc.label) - 1)
       \/ i \in (loc.page_size - 10)..(loc.page_size - 1)

====
